---- MODULE Spec2Model ----
(***************************************************************************)
(* A model of bitvec's single-bit pointer, src/ptr/single.rs:              *)
(* BitPtr<O, T, M> = (addr: Address<T, M>, head: BitIdx<T::Mem>).          *)
(*                                                                         *)
(* The collaborators of BitPtr (Address, BitIdx, BitOrder, BitStore and    *)
(* BitAccess) live in other files of the crate; they are modelled here     *)
(* from their documented interface.                                        *)
(*                                                                         *)
(* Four specifications share the variables:                                *)
(*   SpecCtor  construction, conversion and decomposition                  *)
(*   SpecCmp   eq / partial_cmp / cmp on pairs of pointers                 *)
(*   SpecMem   read and write through a pointer to one allocated element   *)
(*   SpecConc  two threads writing through pointers to the same element    *)
(***************************************************************************)
EXTENDS Integers, FiniteSets, TLC

VARIABLES
    call,   \* SpecCtor: the arguments given, and the last constructor/conversion called
    ret,    \* SpecCtor: what that call returned (Result<BitPtr, AddressError>)
    parts,  \* SpecCtor: what raw_parts returned for the pointer in ret
    lhs,    \* SpecCmp: self
    rhs,    \* SpecCmp: other
    cres,   \* SpecCmp: the last comparison and its result
    ety,    \* SpecMem, SpecConc: T, the type of the allocated element
    ord,    \* SpecMem, SpecConc: O, the bit ordering of the pointers
    elem,   \* SpecMem, SpecConc: the element's contents, the set of its set bit positions
    prev,   \* SpecMem: the contents before the last write; SpecConc: the initial contents
    ptr,    \* SpecMem: the pointer the program writes through
    rptr,   \* SpecMem: the pointer the program reads through
    lastv,  \* SpecMem: the values of the last two writes, latest first
    rd,     \* SpecMem: the last read: the bit index read and the value returned
    tptr,   \* SpecConc: each thread's pointer
    tval,   \* SpecConc: each thread's value
    tpc     \* SpecConc: each thread's position in write

vars == <<call, ret, parts, lhs, rhs, cres, ety, ord, elem, prev, ptr, rptr,
          lastv, rd, tptr, tval, tpc>>

ctorVars == <<call, ret, parts>>
cmpVars == <<lhs, rhs, cres>>
memVars == <<ety, ord, elem, prev, ptr, rptr, lastv, rd>>
concVars == <<tptr, tval, tpc>>

----------------------------------------------------------------------------
(* Bounds *)

\* Raw addresses run over 0 .. MaxAddr; 0 is the null address.
MaxAddr == 16

\* Pointers that are compared or dereferenced point into an array of
\* MaxElems elements.
MaxElems == 2

----------------------------------------------------------------------------
(* The collaborators *)

\* BitStore implementors: the unsigned units, and one alias type that shares
\* the memory representation of u8.
ElemTypes == {"u8", "AtomicU8", "u16", "u32", "u64"}

\* T::Mem: the register type of a storage type.
Mem(T) == IF T = "AtomicU8" THEN "u8" ELSE T

\* The bit width of a register type.
Bits(R) == CASE R = "u8" -> 8 [] R = "u16" -> 16 [] R = "u32" -> 32 [] R = "u64" -> 64

\* align_of::<T>(), in bytes.
AlignOf(T) == Bits(Mem(T)) \div 8

\* TypeId::of::<R>(): one identity per type.
TypeIdOf(R) == R

\* Mutability tags.
Muts == {"Const", "Mut"}

\* BitIdx<R>: 0 <= value < bits(R).
BitIdxs(R) == 0 .. (Bits(R) - 1)

\* BitIdx::ZERO
BitIdxZERO == 0

\* Address::DANGLING is NonNull::dangling(): the type's alignment as an address.
AddressDANGLING(T) == AlignOf(T)

\* What an address can be made from, and the Mutability each source yields.
RefKinds == {"ref", "mut_ref", "nonnull"}
RawKinds == {"const_raw", "mut_raw"}
SrcKinds == RefKinds \cup RawKinds
KindMut(kind) == IF kind \in {"ref", "const_raw"} THEN "Const" ELSE "Mut"

\* The addresses a source of each kind can hold: a reference is non-null and
\* aligned, a NonNull is non-null, a raw pointer is anything.
SrcAddrs(kind, T) ==
    CASE kind \in {"ref", "mut_ref"} -> {a \in 1 .. MaxAddr : a % AlignOf(T) = 0}
      [] kind = "nonnull" -> 1 .. MaxAddr
      [] OTHER -> 0 .. MaxAddr

\* Address<T, M>: TryFrom<*const T> / TryFrom<*mut T>, with Error =
\* AddressError<T>: a null or a misaligned raw pointer is refused.
AddressTryFrom(a, T) ==
    IF a = 0
    THEN [ok |-> FALSE, addr |-> 0, err |-> "Null"]
    ELSE IF a % AlignOf(T) # 0
    THEN [ok |-> FALSE, addr |-> 0, err |-> "Misaligned"]
    ELSE [ok |-> TRUE, addr |-> a, err |-> "none"]

\* Address<T, M>: the infallible From<&T> / From<&mut T> / From<NonNull<T>>,
\* and From<Address<T, M>> itself: the address is kept as it is.
AddressFrom(a) == a

\* Address::value(): the address as a number.
AddressValue(addr) == addr

\* BitIdx::value(): the index as a number.
BitIdxValue(head) == head

----------------------------------------------------------------------------
(* BitPtr: construction, conversion, decomposition *)

NoPtr == [T |-> "none", M |-> "none", addr |-> 0, head |-> 0]

Ok(p) == [ok |-> TRUE, ptr |-> p, err |-> "none"]
Err(e) == [ok |-> FALSE, ptr |-> NoPtr, err |-> e]

\* BitPtr::DANGLING
DANGLING(T, M) == [T |-> T, M |-> M, addr |-> AddressDANGLING(T), head |-> BitIdxZERO]

new_unchecked_zero_head(addr, head, T, M) ==
    [T |-> T, M |-> M, addr |-> AddressFrom(addr), head |-> BitIdxZERO]

\* BitPtr::new_unchecked
new_unchecked(addr, head, T, M) ==
    [T |-> T, M |-> M, addr |-> AddressFrom(addr), head |-> head]

new_unvalidated(kind, a, head, T) ==
    Ok(new_unchecked(a, head, T, KindMut(kind)))

\* BitPtr::new. A: TryInto<Address<T, M>, Error = AddressError<T>> holds of the
\* raw pointers only: a source with an infallible From converts with
\* Error = Infallible.
new(kind, a, head, T) ==
    LET addr == AddressTryFrom(a, T)
    IN  IF ~addr.ok THEN Err(addr.err)
        ELSE Ok(new_unchecked(addr.addr, head, T, KindMut(kind)))

\* BitPtr::raw_parts
raw_parts(p) == <<p.addr, p.head>>

\* From<&T> for BitPtr<O, T, Const>
from_ref(a, T) == [DANGLING(T, "Const") EXCEPT !.addr = AddressFrom(a)]

\* From<&mut T> for BitPtr<O, T, Mut>
from_mut_ref(a, T) == [DANGLING(T, "Mut") EXCEPT !.addr = AddressFrom(a)]

from_nonnull_dangling(a, T) == DANGLING(T, "Mut")

\* From<NonNull<T>> for BitPtr<O, T, Mut>
from_nonnull(a, T) == [DANGLING(T, "Mut") EXCEPT !.addr = AddressFrom(a)]

\* TryFrom<*const T> for BitPtr<O, T, Const>
try_from_const_raw(a, T) ==
    LET addr == AddressTryFrom(a, T)
    IN  IF ~addr.ok THEN Err(addr.err)
        ELSE Ok([DANGLING(T, "Const") EXCEPT !.addr = addr.addr])

\* TryFrom<*mut T> for BitPtr<O, T, Mut>
try_from_mut_raw(a, T) ==
    LET addr == AddressTryFrom(a, T)
    IN  IF ~addr.ok THEN Err(addr.err)
        ELSE Ok([DANGLING(T, "Mut") EXCEPT !.addr = addr.addr])

----------------------------------------------------------------------------
(* BitPtr: equality and ordering *)

\* usize::cmp, and usize::partial_cmp under Some.
Ordering(a, b) == IF a < b THEN "Less" ELSE IF a = b THEN "Equal" ELSE "Greater"

None == [some |-> FALSE, ord |-> "none"]
Some(o) == [some |-> TRUE, ord |-> o]

eq_same_store(self, other) ==
    IF TypeIdOf(self.T) # TypeIdOf(other.T) \/ self.M # other.M
    THEN FALSE
    ELSE /\ AddressValue(self.addr) = AddressValue(other.addr)
         /\ BitIdxValue(self.head) = BitIdxValue(other.head)

eq_ungated(self, other) ==
    /\ AddressValue(self.addr) = AddressValue(other.addr)
    /\ BitIdxValue(self.head) = BitIdxValue(other.head)

\* PartialEq<BitPtr<O, U, N>> for BitPtr<O, T, M>
eq(self, other) ==
    IF TypeIdOf(Mem(self.T)) # TypeIdOf(Mem(other.T))
    THEN FALSE
    ELSE /\ AddressValue(self.addr) = AddressValue(other.addr)
         /\ BitIdxValue(self.head) = BitIdxValue(other.head)

partial_cmp_head_first(self, other) ==
    IF TypeIdOf(Mem(self.T)) # TypeIdOf(Mem(other.T))
    THEN None
    ELSE LET o == Ordering(BitIdxValue(self.head), BitIdxValue(other.head))
         IN  IF o = "Equal"
             THEN Some(Ordering(AddressValue(self.addr), AddressValue(other.addr)))
             ELSE Some(o)

\* PartialOrd<BitPtr<O, U, N>> for BitPtr<O, T, M>
partial_cmp(self, other) ==
    IF TypeIdOf(Mem(self.T)) # TypeIdOf(Mem(other.T))
    THEN None
    ELSE LET o == Ordering(AddressValue(self.addr), AddressValue(other.addr))
         IN  IF o = "Equal"
             THEN Some(Ordering(BitIdxValue(self.head), BitIdxValue(other.head)))
             ELSE Some(o)

cmp_address_only(self, other) ==
    Ordering(AddressValue(self.addr), AddressValue(other.addr))

\* Ord::cmp: partial_cmp, or the panic of expect on None.
cmp(self, other) ==
    LET r == partial_cmp(self, other)
    IN  IF r.some THEN r.ord ELSE "panic"

\* The pointers into an array of MaxElems elements of type T whose first
\* element is as aligned as any element type needs.
MaxAlign == AlignOf("u64")
ArrayAddrs == {k * MaxAlign : k \in 1 .. MaxElems}
ArrayPtrs(T, M) ==
    {new_unchecked(a, h, T, M) : a \in ArrayAddrs, h \in BitIdxs(Mem(T))}
AllArrayPtrs == UNION {ArrayPtrs(T, M) : T \in ElemTypes, M \in Muts}

----------------------------------------------------------------------------
(* BitPtr: reading and writing the referent bit *)

\* The bit orderings.
Orders == {"Lsb0", "Msb0"}

\* BitOrder::at: the position in a register of type R that an index selects.
at(O, R, head) == IF O = "Lsb0" THEN head ELSE Bits(R) - 1 - head

\* BitAccess::get_bit::<O>: whether the bit the index selects is set. An
\* element's contents are the set of its set bit positions.
get_bit(e, O, R, head) == at(O, R, head) \in e

\* BitAccess::write_bit::<O>: one atomic update of the element that sets or
\* clears the bit the index selects.
write_bit(e, O, R, head, value) ==
    IF value THEN e \cup {at(O, R, head)} ELSE e \ {at(O, R, head)}

\* BitPtr::read
read(e, O, self) == get_bit(e, O, Mem(self.T), self.head)

write_zero_head(e, O, self, value) ==
    write_bit(e, O, Mem(self.T), BitIdxZERO, value)

write_toggle(e, O, self, value) ==
    LET pos == at(O, Mem(self.T), self.head)
    IN  IF value THEN (e \ {pos}) \cup ({pos} \ e) ELSE e \ {pos}

write_store(e, O, self, value) ==
    write_bit({}, O, Mem(self.T), self.head, value)

\* BitPtr::write, of a BitPtr<O, T, Mut>
write(e, O, self, value) == write_bit(e, O, Mem(self.T), self.head, value)

\* The contents an element starts with: all bits clear, all set, every
\* second bit set, and the lowest bit alone.
InitContents(R) ==
    { {}, 0 .. (Bits(R) - 1), {b \in 0 .. (Bits(R) - 1) : b % 2 = 0}, {0} }

\* The one allocated element is the first of its array.
ElemAddr == MaxAlign

----------------------------------------------------------------------------
(* Idle values of the variables a specification does not use *)

NoCall == [op |-> "none", kind |-> "none", T |-> "none", addr |-> 0, head |-> 0]
NoRet == [ok |-> FALSE, ptr |-> NoPtr, err |-> "unset"]
NoParts == <<>>
NoCmp == [op |-> "none", eq |-> FALSE, pc |-> None, ord |-> "none"]
NoRead == [head |-> -1, val |-> FALSE]

CtorIdle == call = NoCall /\ ret = NoRet /\ parts = NoParts
CmpIdle == lhs = NoPtr /\ rhs = NoPtr /\ cres = NoCmp
MemIdle ==
    /\ ety = "none" /\ ord = "none" /\ elem = {} /\ prev = {}
    /\ ptr = NoPtr /\ rptr = NoPtr /\ lastv = <<>> /\ rd = NoRead
ConcIdle == tptr = <<>> /\ tval = <<>> /\ tpc = <<>>

----------------------------------------------------------------------------------------------------------------------------------------------
(* SpecCtor: a source of an address and a bit index are given; the         *)
(* constructors and conversions are applied to them, and raw_parts to the  *)
(* pointer they return.                                                    *)

Args(kind, a, head, T) ==
    [op |-> "none", kind |-> kind, T |-> T, addr |-> a, head |-> head]

InitCtor ==
    /\ \E kind \in SrcKinds, T \in ElemTypes :
         \E a \in SrcAddrs(kind, T), head \in BitIdxs(Mem(T)) :
           call = Args(kind, a, head, T)
    /\ ret = NoRet
    /\ parts = NoParts
    /\ CmpIdle /\ MemIdle /\ ConcIdle

DoNew ==
    /\ call.kind \in RawKinds
    /\ call' = [call EXCEPT !.op = "new"]
    /\ ret' = new(call.kind, call.addr, call.head, call.T)
    /\ parts' = NoParts
    /\ UNCHANGED <<cmpVars, memVars, concVars>>

\* new_unchecked takes A: Into<Address<T, M>>: the infallible sources.
DoNewUnchecked ==
    /\ call.kind \in RefKinds
    /\ call' = [call EXCEPT !.op = "new_unchecked"]
    /\ ret' = Ok(new_unchecked(call.addr, call.head, call.T, KindMut(call.kind)))
    /\ parts' = NoParts
    /\ UNCHANGED <<cmpVars, memVars, concVars>>

DoFromRef ==
    /\ call.kind = "ref"
    /\ call' = [call EXCEPT !.op = "from"]
    /\ ret' = Ok(from_ref(call.addr, call.T))
    /\ parts' = NoParts
    /\ UNCHANGED <<cmpVars, memVars, concVars>>

DoFromMutRef ==
    /\ call.kind = "mut_ref"
    /\ call' = [call EXCEPT !.op = "from"]
    /\ ret' = Ok(from_mut_ref(call.addr, call.T))
    /\ parts' = NoParts
    /\ UNCHANGED <<cmpVars, memVars, concVars>>

DoFromNonNull ==
    /\ call.kind = "nonnull"
    /\ call' = [call EXCEPT !.op = "from"]
    /\ ret' = Ok(from_nonnull(call.addr, call.T))
    /\ parts' = NoParts
    /\ UNCHANGED <<cmpVars, memVars, concVars>>

DoTryFromConstRaw ==
    /\ call.kind = "const_raw"
    /\ call' = [call EXCEPT !.op = "try_from"]
    /\ ret' = try_from_const_raw(call.addr, call.T)
    /\ parts' = NoParts
    /\ UNCHANGED <<cmpVars, memVars, concVars>>

DoTryFromMutRaw ==
    /\ call.kind = "mut_raw"
    /\ call' = [call EXCEPT !.op = "try_from"]
    /\ ret' = try_from_mut_raw(call.addr, call.T)
    /\ parts' = NoParts
    /\ UNCHANGED <<cmpVars, memVars, concVars>>

\* raw_parts consumes the pointer the last call returned.
DoRawParts ==
    /\ ret.ok
    /\ parts' = raw_parts(ret.ptr)
    /\ UNCHANGED <<call, ret, cmpVars, memVars, concVars>>

NextCtor ==
    \/ DoNew
    \/ DoNewUnchecked
    \/ DoFromRef
    \/ DoFromMutRef
    \/ DoFromNonNull
    \/ DoTryFromConstRaw
    \/ DoTryFromMutRaw
    \/ DoRawParts

SpecCtor == InitCtor /\ [][NextCtor]_vars

----------------------------------------------------------------------------
(* SpecCmp: two pointers of one bit ordering O into arrays of any element  *)
(* types and mutabilities are given; eq, partial_cmp and cmp are applied.  *)

InitCmp ==
    /\ lhs \in AllArrayPtrs
    /\ rhs \in AllArrayPtrs
    /\ cres = NoCmp
    /\ CtorIdle /\ MemIdle /\ ConcIdle

DoEq ==
    /\ cres' = [NoCmp EXCEPT !.op = "eq", !.eq = eq(lhs, rhs)]
    /\ UNCHANGED <<lhs, rhs, ctorVars, memVars, concVars>>

DoPartialCmp ==
    /\ cres' = [NoCmp EXCEPT !.op = "partial_cmp", !.pc = partial_cmp(lhs, rhs)]
    /\ UNCHANGED <<lhs, rhs, ctorVars, memVars, concVars>>

\* Ord::cmp takes other: &Self: the same T and the same M.
DoCmp ==
    /\ lhs.T = rhs.T
    /\ lhs.M = rhs.M
    /\ cres' = [NoCmp EXCEPT !.op = "cmp", !.ord = cmp(lhs, rhs)]
    /\ UNCHANGED <<lhs, rhs, ctorVars, memVars, concVars>>

NextCmp ==
    \/ DoEq
    \/ DoPartialCmp
    \/ DoCmp

SpecCmp == InitCmp /\ [][NextCmp]_vars

----------------------------------------------------------------------------
(* SpecMem: an element of type T is allocated and initialized; the program *)
(* holds a Mut pointer to one of its bits, which it writes through, and a  *)
(* Const pointer to one of its bits, which it reads through.               *)

InitMem ==
    /\ ety \in ElemTypes
    /\ ord \in Orders
    /\ elem \in InitContents(Mem(ety))
    /\ prev = elem
    /\ \E i \in BitIdxs(Mem(ety)) : ptr = new_unchecked(ElemAddr, i, ety, "Mut")
    /\ \E j \in BitIdxs(Mem(ety)) : rptr = new_unchecked(ElemAddr, j, ety, "Const")
    /\ lastv = <<>>
    /\ rd = NoRead
    /\ CtorIdle /\ CmpIdle /\ ConcIdle

DoWrite ==
    \E value \in BOOLEAN :
        /\ prev' = elem
        /\ elem' = write(elem, ord, ptr, value)
        /\ lastv' = IF lastv = <<>> THEN <<value>> ELSE <<value, lastv[1]>>
        /\ rd' = NoRead
        /\ UNCHANGED <<ety, ord, ptr, rptr, ctorVars, cmpVars, concVars>>

DoRead ==
    /\ rd' = [head |-> rptr.head, val |-> read(elem, ord, rptr)]
    /\ UNCHANGED <<ety, ord, elem, prev, ptr, rptr, lastv, ctorVars, cmpVars, concVars>>

NextMem ==
    \/ DoWrite
    \/ DoRead

SpecMem == InitMem /\ [][NextMem]_vars

----------------------------------------------------------------------------
(* SpecConc: two threads hold Mut pointers to bits of the same element,    *)
(* and each calls write once. A call obtains the element's accessor and    *)
(* then updates the element through it.                                    *)

Threads == {1, 2}

InitConc ==
    /\ ety \in ElemTypes
    /\ ord \in Orders
    /\ elem \in InitContents(Mem(ety))
    /\ prev = elem
    /\ \E i, j \in BitIdxs(Mem(ety)) :
         tptr = <<new_unchecked(ElemAddr, i, ety, "Mut"),
                  new_unchecked(ElemAddr, j, ety, "Mut")>>
    /\ tval \in {<<a, b>> : a, b \in BOOLEAN}
    /\ tpc = <<"call", "call">>
    /\ ptr = NoPtr /\ rptr = NoPtr /\ lastv = <<>> /\ rd = NoRead
    /\ CtorIdle /\ CmpIdle

\* self.addr.to_access(): the thread holds the accessor.
ToAccess(t) ==
    /\ tpc[t] = "call"
    /\ tpc' = [tpc EXCEPT ![t] = "access"]
    /\ UNCHANGED <<tptr, tval, memVars, ctorVars, cmpVars>>

\* write_bit through the accessor.
WriteBit(t) ==
    /\ tpc[t] = "access"
    /\ elem' = write(elem, ord, tptr[t], tval[t])
    /\ tpc' = [tpc EXCEPT ![t] = "done"]
    /\ UNCHANGED <<tptr, tval, ety, ord, prev, ptr, rptr, lastv, rd, ctorVars, cmpVars>>

NextConc ==
    \E t \in Threads :
        \/ ToAccess(t)
        \/ WriteBit(t)

SpecConc == InitConc /\ [][NextConc]_vars

----------------------------------------------------------------------------
(* Claims on SpecCtor *)

Invalid(a, T) == a = 0 \/ a % AlignOf(T) # 0

\* C2: new and the raw-pointer conversions, given a null or misaligned
\* address, return an AddressError and no pointer, for every element type.
C2_NullMisalignedRejected ==
    (/\ call.op \in {"new", "try_from"}
     /\ call.kind \in RawKinds
     /\ Invalid(call.addr, call.T))
    => (/\ ~ret.ok
        /\ ret.ptr = NoPtr
        /\ ret.err = (IF call.addr = 0 THEN "Null" ELSE "Misaligned"))

C2_Witness ==
    /\ call.op = "new"
    /\ call.T = "u32"
    /\ call.addr = 6
    /\ ~ret.ok
    /\ ret.err = "Misaligned"

\* C3: for a valid address a and an index i, new(a, i) succeeds, and raw_parts
\* of the pointer it (or new_unchecked) returns is exactly (a, i).
C3_RoundTrip ==
    /\ (call.op = "new" /\ ~Invalid(call.addr, call.T)) => ret.ok
    /\ (call.op \in {"new", "new_unchecked"} /\ parts # NoParts)
        => parts = <<call.addr, call.head>>

C3_Witness ==
    /\ call.op = "new"
    /\ call.T = "u16"
    /\ call.addr = 6
    /\ call.head = 11
    /\ parts = <<6, 11>>

\* C9: a conversion from a reference or a NonNull always succeeds; every
\* conversion that yields a pointer yields the source's address with bit
\* index 0; DANGLING has bit index 0.
C9_ConversionsKeepAddress ==
    /\ call.op = "from" => ret.ok
    /\ (call.op \in {"from", "try_from"} /\ ret.ok)
        => (ret.ptr.addr = call.addr /\ ret.ptr.head = 0)
    /\ \A T \in ElemTypes, M \in Muts : DANGLING(T, M).head = 0

C9_Witness ==
    /\ call.op = "from"
    /\ call.kind = "nonnull"
    /\ call.T = "u64"
    /\ call.addr = 3
    /\ ret.ok
    /\ ret.ptr.addr = 3
    /\ ret.ptr.head = 0

----------------------------------------------------------------------------
(* Claims on SpecCmp *)

SameRepr == Bits(Mem(lhs.T)) = Bits(Mem(rhs.T))

\* C4: pointers whose element types differ in memory representation are
\* never equal and never comparable, whatever their addresses, indices and
\* mutabilities are.
C4_CrossReprUnequal ==
    ~SameRepr =>
        /\ cres.op = "eq" => cres.eq = FALSE
        /\ cres.op = "partial_cmp" => cres.pc = None

C4_Witness ==
    /\ cres.op = "partial_cmp"
    /\ lhs.T = "u8" /\ rhs.T = "u32"
    /\ lhs.M = "Const" /\ rhs.M = "Mut"
    /\ lhs.addr = rhs.addr /\ lhs.head = rhs.head
    /\ cres.pc = None

\* C5: with element types of one representation the order is lexicographic:
\* by address value when the addresses differ, whatever the indices, and by
\* bit-index value when the addresses are equal.
C5_Expected ==
    IF lhs.addr < rhs.addr THEN "Less"
    ELSE IF lhs.addr > rhs.addr THEN "Greater"
    ELSE IF lhs.head < rhs.head THEN "Less"
    ELSE IF lhs.head > rhs.head THEN "Greater"
    ELSE "Equal"

C5_LexicographicOrder ==
    SameRepr =>
        /\ cres.op = "partial_cmp" => cres.pc = Some(C5_Expected)
        /\ cres.op = "cmp" => cres.ord = C5_Expected

C5_Witness ==
    /\ cres.op = "cmp"
    /\ lhs.addr < rhs.addr
    /\ lhs.head > rhs.head
    /\ cres.ord = "Less"

\* C6: with element types of one representation, two pointers are equal
\* exactly when their address values and their bit-index values are equal;
\* the Const/Mut tags play no part.
C6_StructuralEquality ==
    (SameRepr /\ cres.op = "eq") =>
        (cres.eq <=> (lhs.addr = rhs.addr /\ lhs.head = rhs.head))

C6_Witness ==
    /\ cres.op = "eq"
    /\ lhs.T = "u8" /\ rhs.T = "AtomicU8"
    /\ lhs.M = "Const" /\ rhs.M = "Mut"
    /\ lhs.addr = rhs.addr /\ lhs.head = rhs.head
    /\ cres.eq

\* C10: for pointers of one type, partial_cmp is never None and cmp never
\* panics; cmp is antisymmetric and transitive, and Equal exactly when eq
\* holds.
C10_Flip(o) ==
    CASE o = "Less" -> "Greater" [] o = "Greater" -> "Less" [] OTHER -> o

C10_TotalOrder ==
    (lhs.T = rhs.T /\ lhs.M = rhs.M) =>
        /\ cres.op = "partial_cmp" => cres.pc.some
        /\ cres.op = "cmp" =>
            /\ cres.ord \in {"Less", "Equal", "Greater"}
            /\ cmp(rhs, lhs) = C10_Flip(cres.ord)
            /\ (cres.ord = "Equal") <=> eq(lhs, rhs)
            /\ \A third \in ArrayPtrs(lhs.T, lhs.M) :
                 (cres.ord = cmp(rhs, third) /\ cres.ord # "Equal")
                    => cmp(lhs, third) = cres.ord
            /\ \A third \in ArrayPtrs(lhs.T, lhs.M) :
                 (cres.ord = "Equal" /\ cmp(rhs, third) = "Equal")
                    => cmp(lhs, third) = "Equal"

C10_Witness ==
    /\ cres.op = "cmp"
    /\ lhs.T = "u64" /\ lhs.M = "Mut" /\ rhs.T = "u64" /\ rhs.M = "Mut"
    /\ lhs.addr = rhs.addr
    /\ lhs.head = 63 /\ rhs.head = 0
    /\ cres.ord = "Greater"

----------------------------------------------------------------------------
(* Claims on SpecMem *)

\* C1: after write(ptr_at(i), v), read(ptr_at(i)) returns v, and
\* read(ptr_at(j)) for j # i returns what it returned before the write (on an
\* all-zero element written with TRUE: read(i) is TRUE, every read(j) FALSE).
C1_WriteSetsOneBit ==
    (lastv # <<>> /\ rd # NoRead) =>
        /\ rd.head = ptr.head => rd.val = lastv[1]
        /\ rd.head # ptr.head => rd.val = read(prev, ord, rptr)
        /\ (rd.head # ptr.head /\ prev = {}) => rd.val = FALSE

C1_Witness ==
    /\ ety = "u64" /\ ord = "Msb0"
    /\ lastv = <<TRUE>>
    /\ prev = {}
    /\ ptr.head = 5
    /\ rd = [head |-> 58, val |-> FALSE]
    /\ elem = {58}

\* C8: write(p, v) done twice in succession leaves the element, and what a
\* read of any of its bits returns, as the first write(p, v) left them.
C8_WriteIdempotent ==
    (lastv \in {<<TRUE, TRUE>>, <<FALSE, FALSE>>}) =>
        /\ elem = prev
        /\ rd # NoRead => rd.val = read(prev, ord, rptr)

C8_Witness ==
    /\ ety = "u16"
    /\ lastv = <<TRUE, TRUE>>
    /\ ptr.head = 3
    /\ 3 \in elem
    /\ elem = prev
    /\ rd = [head |-> 3, val |-> TRUE]

----------------------------------------------------------------------------
(* Claims on SpecConc *)

\* C7: when two threads write through pointers to different bits i # j of
\* one element, then after both writes, in every interleaving, bit i holds
\* the first thread's value, bit j the second's, and every other bit of the
\* element is as it was.
C7_PtrAt(k) == new_unchecked(ElemAddr, k, ety, "Const")

====
